---- MODULE Spec2Model ----
(***************************************************************************)
(* Model of flwr/common/deps.py: the content-addressable dependency        *)
(* installation cache (get_deps_dir_hash, get_deps_install_path,           *)
(* install_dependencies, add_deps_to_sys_path).                            *)
(*                                                                         *)
(* A Python str is a sequence of code points, bytes a sequence of octets,  *)
(* a pathlib.Path a sequence of path components, and str(Path) a TLA+      *)
(* string with "/" between the components.                                 *)
(***************************************************************************)
EXTENDS Integers, Sequences, FiniteSets, TLC

----------------------------------------------------------------------------
(* Bounds of the model                                                     *)

\* callers (threads or processes) sharing one base directory
NumCallers == 2
\* calls of install_dependencies the callers make in all
MaxCalls == 2
\* files a complete installation writes into its target directory
MaxFiles == 1
\* calls of add_deps_to_sys_path made with one path
MaxRegisters == 2
\* longest dependency list of the pure-function specification
MaxDeps == 2
\* longest dependency string of the pure-function specification
MaxStrLen == 1

----------------------------------------------------------------------------
(* Values                                                                  *)

\* the code point of "\n", the separator of line 43
NL == 10
\* the characters dependency strings are drawn from: "\n" and "a"
Chars == {NL, 97}

\* every str of at most n characters
RECURSIVE StrsUpTo(_)
StrsUpTo(n) ==
    IF n = 0 THEN {<<>>}
    ELSE LET shorter == StrsUpTo(n - 1)
         IN  shorter \cup {Append(s, c) : s \in shorter, c \in Chars}

\* every list of at most n elements of S
RECURSIVE ListsUpTo(_, _)
ListsUpTo(S, n) ==
    IF n = 0 THEN {<<>>}
    ELSE LET shorter == ListsUpTo(S, n - 1)
         IN  shorter \cup {Append(l, s) : l \in shorter, s \in S}

----------------------------------------------------------------------------
(* get_deps_dir_hash and get_deps_install_path                             *)

\* Python's str comparison s < t: lexicographic by code point
RECURSIVE StrLess(_, _)
StrLess(s, t) ==
    IF t = <<>> THEN FALSE
    ELSE IF s = <<>> THEN TRUE
    ELSE IF s[1] # t[1] THEN s[1] < t[1]
    ELSE StrLess(Tail(s), Tail(t))

\* x put at its place in the sorted list l (after the elements not above it)
RECURSIVE InsertSorted(_, _)
InsertSorted(x, l) ==
    IF l = <<>> THEN <<x>>
    ELSE IF StrLess(x, l[1]) THEN <<x>> \o l
    ELSE <<l[1]>> \o InsertSorted(x, Tail(l))

\* sorted(dependencies): a new list, ascending, duplicates kept
RECURSIVE sorted(_)
sorted(l) ==
    IF l = <<>> THEN <<>>
    ELSE InsertSorted(l[Len(l)], sorted(SubSeq(l, 1, Len(l) - 1)))

\* sep.join(l)
RECURSIVE join(_, _)
join(sep, l) ==
    IF l = <<>> THEN <<>>
    ELSE IF Len(l) = 1 THEN l[1]
    ELSE l[1] \o sep \o join(sep, Tail(l))

\* the UTF-8 octets of one code point below 2048
Utf8(c) == IF c < 128 THEN <<c>> ELSE <<192 + (c \div 64), 128 + (c % 64)>>

\* str.encode(): the UTF-8 octets of s
RECURSIVE encode(_)
encode(s) == IF s = <<>> THEN <<>> ELSE Utf8(s[1]) \o encode(Tail(s))

\* hashlib.sha256(data).hexdigest(): a string that is a function of the
\* octets alone; SHA-256 is taken collision free, so distinct octet
\* sequences have distinct digests
sha256_hexdigest(data) == "sha256:" \o ToString(data)

\* l without the repetitions of its elements
RECURSIVE Dedup(_)
Dedup(l) ==
    IF l = <<>> THEN <<>>
    ELSE LET front == Dedup(SubSeq(l, 1, Len(l) - 1))
         IN  IF \E i \in 1..Len(front) : front[i] = l[Len(l)] THEN front
             ELSE Append(front, l[Len(l)])

\* line 43 as sorted(set(dependencies)) would have it: duplicates dropped
canonical_of_set(dependencies) == join(<<NL>>, sorted(Dedup(dependencies)))

\* line 43: the sorted, newline-joined dependency list
canonical(dependencies) == join(<<NL>>, sorted(dependencies))

\* lines 30-44 without the sort of line 43
get_deps_dir_hash_unsorted(dependencies) ==
    sha256_hexdigest(encode(join(<<NL>>, dependencies)))

\* lines 30-44
get_deps_dir_hash(dependencies) == sha256_hexdigest(encode(canonical(dependencies)))

\* flwr.common.constant.DEPS_DIR
DEPS_DIR == "deps"

\* the process-wide storage root get_flwr_dir() returns when it has one
FLWR_HOME == <<"home", ".flwr">>

\* a directory a caller passes as flwr_dir
OTHER_DIR == <<"tmp", "flwr">>

\* flwr_dir = None, and the value of deps_path before line 96
NoPath == <<>>

\* flwr.common.config.get_flwr_dir(): the storage root, or a
\* ConfigurationError when the environment lets none be determined
get_flwr_dir(env) ==
    IF env = "unset" THEN [raised |-> TRUE, dir |-> NoPath]
    ELSE [raised |-> FALSE, dir |-> FLWR_HOME]

\* lines 47-68: flwr_dir / DEPS_DIR / deps_hash, the default directory
\* standing in for flwr_dir = None; raised when get_flwr_dir() raises
get_deps_install_path(deps, dir, env) ==
    LET base == IF dir = NoPath THEN get_flwr_dir(env)
                ELSE [raised |-> FALSE, dir |-> dir]
    IN  IF base.raised THEN [raised |-> TRUE, path |-> NoPath]
        ELSE [raised |-> FALSE,
              path |-> Append(Append(base.dir, DEPS_DIR), get_deps_dir_hash(deps))]

\* str(path) of a pathlib.Path
RECURSIVE str(_)
str(path) ==
    IF Len(path) = 1 THEN path[1]
    ELSE str(SubSeq(path, 1, Len(path) - 1)) \o "/" \o path[Len(path)]

\* the path and every ancestor of it
Parents(path) == {SubSeq(path, 1, n) : n \in 1..Len(path)}

----------------------------------------------------------------------------
(* State                                                                   *)

VARIABLES
    \* the filesystem: the directories that exist, and the files they hold
    \* as <<directory, file>> pairs
    dirs, files,
    \* what get_flwr_dir() finds in the environment: "set" or "unset"
    env,
    \* sys.path of the process the callers run in
    sys_path,
    \* each caller: where it is, and its two arguments
    pc, dependencies, flwr_dir,
    \* each caller's locals: deps_path (line 96) and path_str (line 143)
    deps_path, path_str,
    \* each caller's child process, started by subprocess.run (line 123)
    child,
    \* what each caller's last call returned or raised
    ret,
    \* history: calls of install_dependencies made so far, installer
    \* processes each caller's current call spawned, and completed calls of
    \* add_deps_to_sys_path for each path string
    calls, spawned, registered,
    \* history: the calls that returned a path, as <<list, base, path>>
    succeeded,
    \* history: the directories an installer that exited with status 0 targeted
    populated,
    \* history: the directories a call that raised RuntimeError had targeted
    failed,
    \* inputs and results of the pure-function specification
    lhs, rhs, out

fsVars == <<dirs, files>>
callVars == <<pc, dependencies, flwr_dir, deps_path, path_str, child, ret>>
histVars == <<calls, spawned, registered, succeeded, populated, failed>>
pureVars == <<lhs, rhs, out>>
vars == <<fsVars, env, sys_path, callVars, histVars, pureVars>>

Callers == 1..NumCallers

\* the dependency lists callers pass: none, "a" and "b" in both orders, "a"
DepLists == {<<>>, <<<<97>>, <<98>>>>, <<<<98>>, <<97>>>>, <<<<97>>>>}

\* the flwr_dir arguments callers pass: None, or the storage root itself
FlwrDirArgs == {NoPath, FLWR_HOME}

\* what the installer writes on its error stream when it fails
Stderrs == {"ERROR: No matching distribution found"}

\* the files of directory d in the set fs of <<directory, file>> pairs
ListingIn(fs, d) == {f[2] : f \in {g \in fs : g[1] = d}}

\* deps_path.iterdir(): the files of directory d
Listing(d) == ListingIn(files, d)

NoChild == [state |-> "none", wrote |-> 0, returncode |-> 0, stderr |-> ""]

Pending == [kind |-> "pending"]
ReturnNone == [kind |-> "None"]
ReturnPath(path) == [kind |-> "Path", path |-> path]
Raise(exc, msg) == [kind |-> exc, msg |-> msg]

\* the base directory a call resolves its path under
BaseOf(path) == SubSeq(path, 1, Len(path) - 2)

\* the paths callers pass to add_deps_to_sys_path
RegisterPaths == {get_deps_install_path(d, FLWR_HOME, "set").path : d \in DepLists \ {<<>>}}

\* the same paths as strings
RegisterStrs == {str(path) : path \in RegisterPaths}

NoOut == [done |-> FALSE]

\* where a caller can be: between calls, at a line of install_dependencies
\* (wait: inside subprocess.run; rmtree, rmdir: inside shutil.rmtree), or at
\* a line of add_deps_to_sys_path
Lines == {"idle", "l93", "exists", "iterdir", "mkdir", "run", "wait", "rmtree",
          "rmdir", "l144", "l145"}

\* the shape of the program's state
TypeOK ==
    /\ \A d \in dirs : d \in Seq(STRING)
    /\ \A f \in files : f[1] \in dirs /\ f[2] \in 1..MaxFiles
    /\ env \in {"set", "unset"}
    /\ \A i \in 1..Len(sys_path) : sys_path[i] \in STRING
    /\ pc \in [Callers -> Lines]
    /\ \A p \in Callers :
          /\ Len(dependencies[p]) >= 0
          /\ flwr_dir[p] \in FlwrDirArgs
          /\ Len(deps_path[p]) \in {0, Len(FLWR_HOME) + 2}
          /\ path_str[p] \in RegisterStrs \cup {""}
          /\ child[p].state \in {"none", "running", "exited"}
          /\ child[p].wrote \in 0..MaxFiles
          /\ ret[p].kind \in {"pending", "None", "Path", "RuntimeError",
                              "ConfigurationError", "FileNotFoundError"}

Init ==
    /\ dirs = Parents(FLWR_HOME)
    /\ files = {}
    /\ env \in {"set", "unset"}
    /\ sys_path = <<"site-packages">>
    /\ pc = [p \in Callers |-> "idle"]
    /\ dependencies = [p \in Callers |-> <<>>]
    /\ flwr_dir = [p \in Callers |-> NoPath]
    /\ deps_path = [p \in Callers |-> NoPath]
    /\ path_str = [p \in Callers |-> ""]
    /\ child = [p \in Callers |-> NoChild]
    /\ ret = [p \in Callers |-> Pending]
    /\ calls = 0
    /\ spawned = [p \in Callers |-> 0]
    /\ registered = [x \in RegisterStrs |-> 0]
    /\ succeeded = {}
    /\ populated = {}
    /\ failed = {}
    /\ lhs = <<>>
    /\ rhs = <<>>
    /\ out = NoOut

----------------------------------------------------------------------------------------------------------------------------------------
(* install_dependencies, lines 71-132                                      *)

\* the call of caller p ends with result r: its arguments and its child
\* locals and its child process are gone, its result stays until its next call
Finish(p, r) ==
    /\ ret' = [ret EXCEPT ![p] = r]
    /\ pc' = [pc EXCEPT ![p] = "idle"]
    /\ dependencies' = [dependencies EXCEPT ![p] = <<>>]
    /\ flwr_dir' = [flwr_dir EXCEPT ![p] = NoPath]
    /\ deps_path' = [deps_path EXCEPT ![p] = NoPath]
    /\ child' = [child EXCEPT ![p] = NoChild]
    /\ succeeded' = IF r.kind = "Path"
                    THEN succeeded \cup {<<dependencies[p], BaseOf(r.path), r.path>>}
                    ELSE succeeded

\* the call install_dependencies(d, f) of caller p
Call(p, d, f) ==
    /\ pc[p] = "idle"
    /\ calls < MaxCalls
    /\ calls' = calls + 1
    /\ pc' = [pc EXCEPT ![p] = "l93"]
    /\ dependencies' = [dependencies EXCEPT ![p] = d]
    /\ flwr_dir' = [flwr_dir EXCEPT ![p] = f]
    /\ ret' = [ret EXCEPT ![p] = Pending]
    /\ spawned' = [spawned EXCEPT ![p] = 0]
    /\ UNCHANGED <<fsVars, env, sys_path, deps_path, path_str, child,
                   registered, failed, succeeded, populated, pureVars>>

\* lines 93-96 without the early return of lines 93-94
Resolve_no_early_return(p) ==
    /\ pc[p] = "l93"
    /\ LET target == get_deps_install_path(dependencies[p], flwr_dir[p], env)
       IN  IF target.raised
           THEN Finish(p, Raise("ConfigurationError", ""))
           ELSE /\ deps_path' = [deps_path EXCEPT ![p] = target.path]
                /\ pc' = [pc EXCEPT ![p] = "exists"]
                /\ UNCHANGED <<dependencies, flwr_dir, child, ret, succeeded>>
    /\ UNCHANGED <<fsVars, env, sys_path, path_str, calls, spawned, registered,
                   failed, populated, pureVars>>

\* lines 93-96 with the error of get_flwr_dir() caught and another
\* directory taken in its place
Resolve_falls_back(p) ==
    /\ pc[p] = "l93"
    /\ IF dependencies[p] = <<>>
       THEN Finish(p, ReturnNone)
       ELSE LET target == get_deps_install_path(dependencies[p], flwr_dir[p], env)
                other == get_deps_install_path(dependencies[p], FLWR_HOME, env)
            IN  /\ deps_path' = [deps_path EXCEPT ![p] =
                                    IF target.raised THEN other.path
                                    ELSE target.path]
                /\ pc' = [pc EXCEPT ![p] = "exists"]
                /\ UNCHANGED <<dependencies, flwr_dir, child, ret, succeeded>>
    /\ UNCHANGED <<fsVars, env, sys_path, path_str, calls, spawned, registered,
                   failed, populated, pureVars>>

\* lines 93-96: the early return for no dependencies, and the target path;
\* get_flwr_dir() raising ends the call
Resolve(p) ==
    /\ pc[p] = "l93"
    /\ IF dependencies[p] = <<>>
       THEN Finish(p, ReturnNone)
       ELSE LET target == get_deps_install_path(dependencies[p], flwr_dir[p], env)
            IN  IF target.raised
                THEN Finish(p, Raise("ConfigurationError", ""))
                ELSE /\ deps_path' = [deps_path EXCEPT ![p] = target.path]
                     /\ pc' = [pc EXCEPT ![p] = "exists"]
                     /\ UNCHANGED <<dependencies, flwr_dir, child, ret, succeeded>>
    /\ UNCHANGED <<fsVars, env, sys_path, path_str, calls, spawned, registered,
                   failed, populated, pureVars>>

\* line 99 as a check that also counts a directory another caller is about
\* to make or fill as existing
Exists_sees_callers(p) ==
    /\ pc[p] = "exists"
    /\ pc' = [pc EXCEPT ![p] =
                IF \/ deps_path[p] \in dirs
                   \/ \E q \in Callers \ {p} :
                          /\ deps_path[q] = deps_path[p]
                          /\ pc[q] \in {"mkdir", "run", "wait"}
                THEN "iterdir" ELSE "mkdir"]
    /\ UNCHANGED <<fsVars, env, sys_path, dependencies, flwr_dir, deps_path,
                   path_str, child, ret, histVars, pureVars>>

\* line 99, deps_path.exists()
Exists(p) ==
    /\ pc[p] = "exists"
    /\ pc' = [pc EXCEPT ![p] = IF deps_path[p] \in dirs THEN "iterdir" ELSE "mkdir"]
    /\ UNCHANGED <<fsVars, env, sys_path, dependencies, flwr_dir, deps_path,
                   path_str, child, ret, histVars, pureVars>>

\* line 99 as deps_path.exists() alone: a directory that exists is returned
\* whatever it holds
Iterdir_exists_only(p) ==
    /\ pc[p] = "iterdir"
    /\ IF deps_path[p] \notin dirs
       THEN Finish(p, Raise("FileNotFoundError", ""))
       ELSE Finish(p, ReturnPath(deps_path[p]))
    /\ UNCHANGED <<fsVars, env, sys_path, path_str, calls, spawned,
                   registered, failed, populated, pureVars>>

\* line 99 without its early return: the directory is installed into
\* whatever it holds
Iterdir_always_installs(p) ==
    /\ pc[p] = "iterdir"
    /\ pc' = [pc EXCEPT ![p] = "mkdir"]
    /\ UNCHANGED <<fsVars, env, sys_path, dependencies, flwr_dir, deps_path,
                   path_str, child, ret, histVars, pureVars>>

\* line 99, any(deps_path.iterdir()), and the return of lines 100-101;
\* iterdir raises FileNotFoundError for a directory removed since exists()
Iterdir(p) ==
    /\ pc[p] = "iterdir"
    /\ IF deps_path[p] \notin dirs
       THEN Finish(p, Raise("FileNotFoundError", ""))
       ELSE IF Listing(deps_path[p]) # {}
       THEN Finish(p, ReturnPath(deps_path[p]))
       ELSE /\ pc' = [pc EXCEPT ![p] = "mkdir"]
            /\ UNCHANGED <<dependencies, flwr_dir, deps_path, child, ret, succeeded>>
    /\ UNCHANGED <<fsVars, env, sys_path, path_str, calls, spawned,
                   registered, failed, populated, pureVars>>

\* line 103, deps_path.mkdir(parents=True, exist_ok=True)
Mkdir(p) ==
    /\ pc[p] = "mkdir"
    /\ dirs' = dirs \cup Parents(deps_path[p])
    /\ pc' = [pc EXCEPT ![p] = "run"]
    /\ UNCHANGED <<files, env, sys_path, dependencies, flwr_dir, deps_path,
                   path_str, child, ret, histVars, pureVars>>

\* lines 112-123: subprocess.run starts pip install --target deps_path
Run(p) ==
    /\ pc[p] = "run"
    /\ child' = [child EXCEPT ![p] = [NoChild EXCEPT !.state = "running"]]
    /\ spawned' = [spawned EXCEPT ![p] = @ + 1]
    /\ pc' = [pc EXCEPT ![p] = "wait"]
    /\ UNCHANGED <<fsVars, env, sys_path, dependencies, flwr_dir, deps_path,
                   path_str, ret, calls, registered, failed, succeeded, populated,
                   pureVars>>

\* the installer writes its next file into the target directory, which it
\* makes again when it is gone
PipWrite(p) ==
    /\ pc[p] = "wait"
    /\ child[p].state = "running"
    /\ child[p].wrote < MaxFiles
    /\ dirs' = dirs \cup Parents(deps_path[p])
    /\ files' = files \cup {<<deps_path[p], child[p].wrote + 1>>}
    /\ child' = [child EXCEPT ![p].wrote = @ + 1]
    /\ UNCHANGED <<env, sys_path, pc, dependencies, flwr_dir, deps_path,
                   path_str, ret, histVars, pureVars>>

\* the text of the RuntimeError of lines 127-129
FailureMessage(stderr) == "Failed to install dependencies: " \o stderr

\* lines 122-132 with the rmtree of line 126 in a finally clause: the
\* directory is removed after a successful installation too
PipExit_always_cleans(p, code, err) ==
    /\ pc[p] = "wait"
    /\ child[p].state = "running"
    /\ code = 0 => (child[p].wrote = MaxFiles /\ err = "")
    /\ code # 0 => err \in Stderrs
    /\ IF code = 0
       THEN /\ Finish(p, ReturnPath(deps_path[p]))
            /\ populated' = populated \cup {deps_path[p]}
            /\ files' = {f \in files : f[1] # deps_path[p]}
            /\ dirs' = dirs \ {deps_path[p]}
       ELSE /\ child' = [child EXCEPT ![p].state = "exited",
                                      ![p].returncode = code, ![p].stderr = err]
            /\ pc' = [pc EXCEPT ![p] = "rmtree"]
            /\ UNCHANGED <<fsVars, dependencies, flwr_dir, deps_path, ret,
                           succeeded, populated>>
    /\ UNCHANGED <<env, sys_path, path_str, calls, spawned, registered, failed, pureVars>>

\* lines 122-132 with the installed directory put on sys.path before the
\* return of line 132
PipExit_registers(p, code, err) ==
    /\ pc[p] = "wait"
    /\ child[p].state = "running"
    /\ code = 0 => (child[p].wrote = MaxFiles /\ err = "")
    /\ code # 0 => err \in Stderrs
    /\ IF code = 0
       THEN /\ Finish(p, ReturnPath(deps_path[p]))
            /\ populated' = populated \cup {deps_path[p]}
            /\ sys_path' = <<str(deps_path[p])>> \o sys_path
       ELSE /\ child' = [child EXCEPT ![p].state = "exited",
                                      ![p].returncode = code, ![p].stderr = err]
            /\ pc' = [pc EXCEPT ![p] = "rmtree"]
            /\ UNCHANGED <<dependencies, flwr_dir, deps_path, ret, succeeded,
                           populated, sys_path>>
    /\ UNCHANGED <<fsVars, env, path_str, calls, spawned, registered, failed,
                   pureVars>>

\* lines 122-132 with subprocess.run(..., timeout=...): the call can give
\* up, with TimeoutExpired, on an installer that has not exited
PipExit_times_out(p, code, err) ==
    /\ pc[p] = "wait"
    /\ child[p].state = "running"
    /\ code = 0 => (child[p].wrote = MaxFiles /\ err = "")
    /\ code # 0 => err \in Stderrs
    /\ IF code = 0
       THEN /\ Finish(p, ReturnPath(deps_path[p]))
            /\ populated' = populated \cup {deps_path[p]}
       ELSE /\ Finish(p, Raise("TimeoutExpired", ""))
            /\ UNCHANGED populated
    /\ UNCHANGED <<fsVars, env, sys_path, path_str, calls, spawned,
                   registered, failed, pureVars>>

\* lines 122-132 without the rmtree of line 126: what a failed installer
\* wrote, and the directory, stay
PipExit_no_rollback(p, code, err) ==
    /\ pc[p] = "wait"
    /\ child[p].state = "running"
    /\ code = 0 => (child[p].wrote = MaxFiles /\ err = "")
    /\ code # 0 => err \in Stderrs
    /\ IF code = 0
       THEN /\ Finish(p, ReturnPath(deps_path[p]))
            /\ populated' = populated \cup {deps_path[p]}
            /\ UNCHANGED failed
       ELSE /\ Finish(p, Raise("RuntimeError", FailureMessage(err)))
            /\ failed' = failed \cup {deps_path[p]}
            /\ UNCHANGED populated
    /\ UNCHANGED <<fsVars, env, sys_path, path_str, calls, spawned,
                   registered, pureVars>>

\* lines 122-132 with a second attempt after a failed installation
PipExit_retries(p, code, err) ==
    /\ pc[p] = "wait"
    /\ child[p].state = "running"
    /\ code = 0 => (child[p].wrote = MaxFiles /\ err = "")
    /\ code # 0 => err \in Stderrs
    /\ IF code = 0
       THEN /\ Finish(p, ReturnPath(deps_path[p]))
            /\ populated' = populated \cup {deps_path[p]}
       ELSE /\ child' = [child EXCEPT ![p].state = "exited",
                                      ![p].returncode = code, ![p].stderr = err]
            /\ pc' = [pc EXCEPT ![p] = IF spawned[p] < 2 THEN "run" ELSE "rmtree"]
            /\ UNCHANGED <<dependencies, flwr_dir, deps_path, ret, succeeded,
                           populated>>
    /\ UNCHANGED <<fsVars, env, sys_path, path_str, calls, spawned,
                   registered, failed, pureVars>>

\* line 123 returns: the installer exits, with status 0 once it has written
\* every file (lines 131-132), or with another status and its error text
\* at any moment (CalledProcessError, lines 124-125)
PipExit(p, code, err) ==
    /\ pc[p] = "wait"
    /\ child[p].state = "running"
    /\ code = 0 => (child[p].wrote = MaxFiles /\ err = "")
    /\ code # 0 => err \in Stderrs
    /\ IF code = 0
       THEN /\ Finish(p, ReturnPath(deps_path[p]))
            /\ populated' = populated \cup {deps_path[p]}
       ELSE /\ child' = [child EXCEPT ![p].state = "exited",
                                      ![p].returncode = code, ![p].stderr = err]
            /\ pc' = [pc EXCEPT ![p] = "rmtree"]
            /\ UNCHANGED <<dependencies, flwr_dir, deps_path, ret, succeeded, populated>>
    /\ UNCHANGED <<fsVars, env, sys_path, path_str, calls, spawned,
                   registered, failed, pureVars>>

\* line 126 as shutil.rmtree(deps_path.parent, ignore_errors=True): the
\* files of every entry of the deps directory are unlinked
RmtreeUnlink_whole_cache(p) ==
    /\ pc[p] = "rmtree"
    /\ files' = {f \in files : BaseOf(f[1]) # BaseOf(deps_path[p])}
    /\ pc' = [pc EXCEPT ![p] = "rmdir"]
    /\ UNCHANGED <<dirs, env, sys_path, dependencies, flwr_dir, deps_path,
                   path_str, child, ret, histVars, pureVars>>

\* line 126, shutil.rmtree(deps_path, ignore_errors=True): the entries
\* it finds are unlinked (none when the directory is gone)
RmtreeUnlink(p) ==
    /\ pc[p] = "rmtree"
    /\ files' = {f \in files : f[1] # deps_path[p]}
    /\ pc' = [pc EXCEPT ![p] = "rmdir"]
    /\ UNCHANGED <<dirs, env, sys_path, dependencies, flwr_dir, deps_path,
                   path_str, child, ret, histVars, pureVars>>

\* lines 126-129 with the directory itself left in place
RmtreeRmdir_keeps_directory(p) ==
    /\ pc[p] = "rmdir"
    /\ failed' = failed \cup {deps_path[p]}
    /\ Finish(p, Raise("RuntimeError", FailureMessage(child[p].stderr)))
    /\ UNCHANGED <<fsVars, env, sys_path, path_str, calls, spawned,
                   registered, populated, pureVars>>

\* line 126, the rmdir that ends rmtree: an error (the directory is gone, or
\* has an entry again) is ignored; then lines 127-129 raise
RmtreeRmdir(p) ==
    /\ pc[p] = "rmdir"
    /\ dirs' = IF Listing(deps_path[p]) = {} THEN dirs \ {deps_path[p]} ELSE dirs
    /\ failed' = failed \cup {deps_path[p]}
    /\ Finish(p, Raise("RuntimeError", FailureMessage(child[p].stderr)))
    /\ UNCHANGED <<files, env, sys_path, path_str, calls, spawned,
                   registered, populated, pureVars>>

----------------
(* add_deps_to_sys_path, lines 135-145                                     *)

\* line 143: the call, and path_str = str(deps_path)
Register(p, path) ==
    /\ pc[p] = "idle"
    /\ registered[str(path)] < MaxRegisters
    /\ path_str' = [path_str EXCEPT ![p] = str(path)]
    /\ pc' = [pc EXCEPT ![p] = "l144"]
    /\ UNCHANGED <<fsVars, env, sys_path, dependencies, flwr_dir, deps_path,
                   child, ret, histVars, pureVars>>

\* how often x occurs in the list l
Count(x, l) == Cardinality({i \in 1..Len(l) : l[i] = x})

Elements(l) == {l[i] : i \in 1..Len(l)}

\* line 144: path_str not in sys.path
Member(x, l) == \E i \in 1..Len(l) : l[i] = x

\* line 145 without the test of line 144
RegisterCheck_no_test(p) ==
    /\ pc[p] = "l144"
    /\ pc' = [pc EXCEPT ![p] = "l145"]
    /\ UNCHANGED <<fsVars, env, sys_path, dependencies, flwr_dir, deps_path,
                   path_str, child, ret, histVars, pureVars>>

RegisterCheck(p) ==
    /\ pc[p] = "l144"
    /\ IF Member(path_str[p], sys_path)
       THEN /\ pc' = [pc EXCEPT ![p] = "idle"]
            /\ registered' = [registered EXCEPT ![path_str[p]] = @ + 1]
       ELSE /\ pc' = [pc EXCEPT ![p] = "l145"]
            /\ UNCHANGED registered
    /\ UNCHANGED <<fsVars, env, sys_path, dependencies, flwr_dir, deps_path,
                   path_str, child, ret, calls, spawned, succeeded, populated, failed,
                   pureVars>>

\* line 145 as sys.path.append(path_str)
RegisterInsert_at_end(p) ==
    /\ pc[p] = "l145"
    /\ sys_path' = Append(sys_path, path_str[p])
    /\ pc' = [pc EXCEPT ![p] = "idle"]
    /\ registered' = [registered EXCEPT ![path_str[p]] = @ + 1]
    /\ UNCHANGED <<fsVars, env, dependencies, flwr_dir, deps_path, path_str,
                   child, ret, calls, spawned, succeeded, populated, failed,
                   pureVars>>

\* lines 144-145 under a lock: the test is made again with the insert
RegisterInsert_rechecks(p) ==
    /\ pc[p] = "l145"
    /\ sys_path' = IF Member(path_str[p], sys_path) THEN sys_path
                   ELSE <<path_str[p]>> \o sys_path
    /\ pc' = [pc EXCEPT ![p] = "idle"]
    /\ registered' = [registered EXCEPT ![path_str[p]] = @ + 1]
    /\ UNCHANGED <<fsVars, env, dependencies, flwr_dir, deps_path, path_str,
                   child, ret, calls, spawned, succeeded, populated, failed,
                   pureVars>>

\* line 145: sys.path.insert(0, path_str)
RegisterInsert(p) ==
    /\ pc[p] = "l145"
    /\ sys_path' = <<path_str[p]>> \o sys_path
    /\ pc' = [pc EXCEPT ![p] = "idle"]
    /\ registered' = [registered EXCEPT ![path_str[p]] = @ + 1]
    /\ UNCHANGED <<fsVars, env, dependencies, flwr_dir, deps_path, path_str,
                   child, ret, calls, spawned, succeeded, populated, failed, pureVars>>

----------------------------------------------------------------------------
(* Specifications                                                          *)

Install(p) ==
    \/ \E d \in DepLists, f \in FlwrDirArgs : Call(p, d, f)
    \/ Resolve(p)
    \/ Exists(p)
    \/ Iterdir(p)
    \/ Mkdir(p)
    \/ Run(p)
    \/ PipWrite(p)
    \/ \E code \in {0, 1}, err \in Stderrs \cup {""} : PipExit(p, code, err)
    \/ RmtreeUnlink(p)
    \/ RmtreeRmdir(p)

\* one caller at a time: a caller moves only while every other is between calls
Alone(p) == \A q \in Callers \ {p} : pc[q] = "idle"

\* callers of install_dependencies run concurrently
Next == \E p \in Callers : Install(p)

Spec == Init /\ [][Next]_vars

\* callers of install_dependencies run one after the other
SeqNext ==
    \E p \in Callers :
        \/ Alone(p) /\ \E d \in DepLists, f \in FlwrDirArgs : Call(p, d, f)
        \/ Alone(p) /\ Resolve(p)
        \/ Alone(p) /\ Exists(p)
        \/ Alone(p) /\ Iterdir(p)
        \/ Alone(p) /\ Mkdir(p)
        \/ Alone(p) /\ Run(p)
        \/ Alone(p) /\ PipWrite(p)
        \/ Alone(p) /\ \E code \in {0, 1}, err \in Stderrs \cup {""} :
                           PipExit(p, code, err)
        \/ Alone(p) /\ RmtreeUnlink(p)
        \/ Alone(p) /\ RmtreeRmdir(p)

SeqSpec == Init /\ [][SeqNext]_vars

\* the steps of install_dependencies the thread of caller p makes itself
Step(p) ==
    \/ Resolve(p)
    \/ Exists(p)
    \/ Iterdir(p)
    \/ Mkdir(p)
    \/ Run(p)
    \/ RmtreeUnlink(p)
    \/ RmtreeRmdir(p)

\* the installer of caller p exits
Exit(p) == \E code \in {0, 1}, err \in Stderrs \cup {""} : PipExit(p, code, err)

\* callers one after the other, whose threads keep running and whose
\* installers, once started, exit
FairSpec ==
    /\ Init
    /\ [][SeqNext]_vars
    /\ \A p \in Callers : WF_vars(Step(p)) /\ WF_vars(Exit(p))

\* the cache entry of the list ["a"] under the storage root
StaleEntry == get_deps_install_path(<<<<97>>>>, FLWR_HOME, "set").path

\* Init with StaleEntry present and empty, as a process killed between
\* line 103 and its installer's first write leaves it
StaleInit ==
    /\ dirs = Parents(StaleEntry)
    /\ files = {}
    /\ env \in {"set", "unset"}
    /\ sys_path = <<"site-packages">>
    /\ pc = [p \in Callers |-> "idle"]
    /\ dependencies = [p \in Callers |-> <<>>]
    /\ flwr_dir = [p \in Callers |-> NoPath]
    /\ deps_path = [p \in Callers |-> NoPath]
    /\ path_str = [p \in Callers |-> ""]
    /\ child = [p \in Callers |-> NoChild]
    /\ ret = [p \in Callers |-> Pending]
    /\ calls = 0
    /\ spawned = [p \in Callers |-> 0]
    /\ registered = [x \in RegisterStrs |-> 0]
    /\ succeeded = {}
    /\ populated = {}
    /\ failed = {}
    /\ lhs = <<>>
    /\ rhs = <<>>
    /\ out = NoOut

\* callers one after the other, the first of them finding an empty entry
StaleSpec == StaleInit /\ [][SeqNext]_vars

AddToSysPath(p) ==
    \/ \E path \in RegisterPaths : Register(p, path)
    \/ RegisterCheck(p)
    \/ RegisterInsert(p)

\* threads of one process call add_deps_to_sys_path concurrently
RegNext == \E p \in Callers : AddToSysPath(p)

RegSpec == Init /\ [][RegNext]_vars

\* add_deps_to_sys_path is called from one thread at a time
RegSeqNext ==
    \E p \in Callers :
        \/ Alone(p) /\ \E path \in RegisterPaths : Register(p, path)
        \/ Alone(p) /\ RegisterCheck(p)
        \/ Alone(p) /\ RegisterInsert(p)

RegSeqSpec == Init /\ [][RegSeqNext]_vars

\* a process that installs and then registers the path the call returned,
\* one call at a time
UseNext ==
    \E p \in Callers :
        \/ Alone(p) /\ \E d \in DepLists, f \in FlwrDirArgs : Call(p, d, f)
        \/ Alone(p) /\ Resolve(p)
        \/ Alone(p) /\ Exists(p)
        \/ Alone(p) /\ Iterdir(p)
        \/ Alone(p) /\ Mkdir(p)
        \/ Alone(p) /\ Run(p)
        \/ Alone(p) /\ PipWrite(p)
        \/ Alone(p) /\ \E code \in {0, 1}, err \in Stderrs \cup {""} :
                           PipExit(p, code, err)
        \/ Alone(p) /\ RmtreeUnlink(p)
        \/ Alone(p) /\ RmtreeRmdir(p)
        \/ Alone(p) /\ ret[p].kind = "Path" /\ Register(p, ret[p].path)
        \/ Alone(p) /\ RegisterCheck(p)
        \/ Alone(p) /\ RegisterInsert(p)

UseSpec == Init /\ [][UseNext]_vars

----------------------------------------------------------------------------
(* The pure functions on their own                                         *)

\* every dependency list of the bounds
AllDepLists == ListsUpTo(StrsUpTo(MaxStrLen), MaxDeps)

\* Init with two dependency lists drawn for lhs and rhs
PureInit ==
    /\ dirs = Parents(FLWR_HOME)
    /\ files = {}
    /\ env \in {"set", "unset"}
    /\ sys_path = <<"site-packages">>
    /\ pc = [p \in Callers |-> "idle"]
    /\ dependencies = [p \in Callers |-> <<>>]
    /\ flwr_dir = [p \in Callers |-> NoPath]
    /\ deps_path = [p \in Callers |-> NoPath]
    /\ path_str = [p \in Callers |-> ""]
    /\ child = [p \in Callers |-> NoChild]
    /\ ret = [p \in Callers |-> Pending]
    /\ calls = 0
    /\ spawned = [p \in Callers |-> 0]
    /\ registered = [x \in RegisterStrs |-> 0]
    /\ succeeded = {}
    /\ populated = {}
    /\ failed = {}
    /\ lhs \in AllDepLists
    /\ rhs \in AllDepLists
    /\ out = NoOut

\* get_deps_dir_hash and get_deps_install_path applied to lhs and to rhs,
\* with the same flwr_dir argument f
Fingerprint(f) ==
    /\ ~out.done
    /\ out' = [done |-> TRUE,
               flwr_dir |-> f,
               canonical |-> <<canonical(lhs), canonical(rhs)>>,
               hash |-> <<get_deps_dir_hash(lhs), get_deps_dir_hash(rhs)>>,
               path |-> <<get_deps_install_path(lhs, f, env),
                          get_deps_install_path(rhs, f, env)>>]
    /\ UNCHANGED <<fsVars, env, sys_path, callVars, histVars, lhs, rhs>>

PureNext == \E f \in {NoPath, OTHER_DIR} : Fingerprint(f)

PureSpec == PureInit /\ [][PureNext]_vars

----------------------------------------------------------------------------
(* Properties of the pure functions, under PureSpec                        *)

\* l and r are permutations of one multiset of strings
SameMultiset(l, r) ==
    \A x \in Elements(l) \cup Elements(r) : Count(x, l) = Count(x, r)

\* the base directory get_deps_install_path composes under for argument f
BaseDirFor(f) == IF f = NoPath THEN FLWR_HOME ELSE f

\* C6: two dependency lists that are permutations of the same multiset have
\* the same digest and, with the same base directory, the same install
\* path, which is baseDir / "deps" / digest.
C6_PermutationsShareFingerprint ==
    (out.done /\ SameMultiset(lhs, rhs)) =>
        /\ out.hash[1] = out.hash[2]
        /\ out.path[1] = out.path[2]
        /\ ~out.path[1].raised =>
              out.path[1].path =
                  Append(Append(BaseDirFor(out.flwr_dir), "deps"), out.hash[1])

\* C6 witness: two different orders of one multiset have been fingerprinted
\* and resolved to a path.
C6_Witness ==
    /\ out.done
    /\ lhs # rhs
    /\ SameMultiset(lhs, rhs)
    /\ ~out.path[1].raised

\* C10 as stated: any two different multisets of strings, whatever the
\* strings, have different canonical strings.
C10_InjectiveOverAllStrings ==
    (out.done /\ ~SameMultiset(lhs, rhs)) => out.canonical[1] # out.canonical[2]

\* no string of l holds a newline
NewlineFree(l) == \A i \in 1..Len(l) : \A j \in 1..Len(l[i]) : l[i][j] # NL

\* l is the empty list or the list of one empty string
EmptyOrBlank(l) == l = <<>> \/ l = <<<<>>>>

\* C10 amended: two different multisets of newline-free strings have
\* different canonical strings, except that the empty collection and the
\* collection of one empty string both give the empty canonical string.
C10_InjectiveOverNewlineFree ==
    (/\ out.done
     /\ ~SameMultiset(lhs, rhs)
     /\ NewlineFree(lhs) /\ NewlineFree(rhs)
     /\ ~(EmptyOrBlank(lhs) /\ EmptyOrBlank(rhs)))
        => out.canonical[1] # out.canonical[2]

\* C10 witness: two lists of the same strings that differ in a duplicate
\* count alone have been canonicalised.
C10_Witness ==
    /\ out.done
    /\ NewlineFree(lhs) /\ NewlineFree(rhs)
    /\ Elements(lhs) = Elements(rhs)
    /\ lhs # <<>>
    /\ ~SameMultiset(lhs, rhs)

----------------------------------------------------------------------------
(* Properties of install_dependencies                                      *)

\* the step ends the call of install_dependencies that caller p is in
Ends(p) == pc[p] \notin {"idle", "l144", "l145"} /\ pc'[p] = "idle"

\* the paths that earlier calls with list d and the base directory of path
\* returned
PriorPaths(d, path) ==
    {s[3] : s \in {t \in succeeded : t[1] = d /\ t[2] = BaseOf(path)}}

\* C1: with callers one after the other, a call whose dependency list and
\* base directory are those of an earlier call that returned a path ends
\* with that same path and without having spawned an installer.
C1_SecondCallIsCacheHit ==
    [][\A p \in Callers :
          (Ends(p) /\ deps_path[p] # NoPath
                   /\ PriorPaths(dependencies[p], deps_path[p]) # {})
              => /\ ret'[p].kind = "Path"
                 /\ ret'[p].path \in PriorPaths(dependencies[p], deps_path[p])
                 /\ spawned'[p] = 0]_vars

\* C1 witness: one list has been installed by a first call and returned
\* again, with nothing spawned, by the second call, the only calls made.
C1_Witness ==
    \E p \in Callers :
        /\ pc[p] = "idle"
        /\ ret[p].kind = "Path"
        /\ spawned[p] = 0
        /\ ret[p].path \in populated
        /\ Cardinality(succeeded) = 1
        /\ calls = 2

\* msg carries text: the text as it is, or after the fixed words of line 128
Contains(msg, text) ==
    \E before \in {"", "Failed to install dependencies: "} : msg = before \o text

\* C2: with callers one after the other, a call whose installer exited with
\* a non-zero status ends with its target directory absent and with a
\* RuntimeError whose message carries the installer's error text.
C2_FailureRollsBack ==
    [][\A p \in Callers :
          (Ends(p) /\ child[p].returncode # 0)
              => /\ deps_path[p] \notin dirs'
                 /\ ListingIn(files', deps_path[p]) = {}
                 /\ ret'[p].kind = "RuntimeError"
                 /\ Contains(ret'[p].msg, child[p].stderr)]_vars

\* the cache entries: the directories below a "deps" directory
CacheEntries == {d \in dirs : Len(d) > 2 /\ d[Len(d) - 1] = DEPS_DIR}

\* C2 witness: a call has failed after its installer wrote into the target,
\* and no cache entry is left.
C2_Witness ==
    \E p \in Callers :
        /\ pc[p] = "idle"
        /\ ret[p].kind = "RuntimeError"
        /\ spawned[p] = 1
        /\ CacheEntries = {}
        /\ files = {}

\* C3: a cache entry that a successful installation has populated is not
\* deleted, emptied, written to or installed into again by any later step
\* of any caller.
C3_PopulatedIsTerminal ==
    [][\A d \in populated :
          /\ d \in dirs'
          /\ ListingIn(files', d) = ListingIn(files, d)
          /\ \A p \in Callers :
                ~(deps_path[p] = d /\ pc[p] = "wait" /\ child'[p] # child[p]
                     /\ child'[p].wrote # child[p].wrote)
          /\ \A p \in Callers :
                ~(deps_path[p] = d /\ pc[p] = "run" /\ pc'[p] = "wait")]_vars

\* C4: a call with an empty dependency list returns None in its first step,
\* which changes no directory and no file and spawns no installer.
C4_EmptyListReturnsNone ==
    [][\A p \in Callers :
          (pc[p] = "l93" /\ dependencies[p] = <<>> /\ pc'[p] # "l93")
              => /\ pc'[p] = "idle"
                 /\ ret'[p] = ReturnNone
                 /\ spawned'[p] = 0
                 /\ child'[p] = NoChild
                 /\ dirs' = dirs
                 /\ files' = files]_vars

\* C4 witness: a call with the empty list has returned None.
C4_Witness ==
    \E p \in Callers : pc[p] = "idle" /\ ret[p] = ReturnNone /\ spawned[p] = 0

\* C5: a call that finds its target directory present and non-empty at the
\* check of line 99 returns that path in this step, which changes no
\* directory and no file, and the call has spawned no installer.
C5_CacheHitHasNoEffect ==
    [][\A p \in Callers :
          (/\ pc[p] = "iterdir"
           /\ deps_path[p] \in dirs
           /\ Listing(deps_path[p]) # {}
           /\ pc'[p] # "iterdir")
              => /\ pc'[p] = "idle"
                 /\ ret'[p] = ReturnPath(deps_path[p])
                 /\ spawned'[p] = 0
                 /\ child'[p] = NoChild
                 /\ dirs' = dirs
                 /\ files' = files]_vars

\* C5 witness: a call has returned the path of a non-empty directory
\* without spawning an installer.
C5_Witness ==
    \E p \in Callers :
        /\ pc[p] = "idle"
        /\ ret[p].kind = "Path"
        /\ spawned[p] = 0
        /\ Listing(ret[p].path) # {}

\* C8: a call spawns the installer at most once: after a non-zero exit the
\* call is on its way to the rollback and the raise, and a call that raised
\* RuntimeError spawned exactly one installer.
C8_NoInternalRetry ==
    \A p \in Callers :
        /\ spawned[p] <= 1
        /\ child[p].state = "exited" =>
              (child[p].returncode # 0 /\ pc[p] \in {"rmtree", "rmdir"})
        /\ (pc[p] = "idle" /\ ret[p].kind = "RuntimeError") => spawned[p] = 1

\* C8 witness: a call has raised RuntimeError after its one installer failed.
C8_Witness ==
    \E p \in Callers :
        pc[p] = "idle" /\ ret[p].kind = "RuntimeError" /\ spawned[p] = 1

\* C15: provided the thread keeps running and the installer it started
\* exits, every call of install_dependencies ends; and a call inside
\* subprocess.run leaves it only in a step in which its installer exits,
\* either with status 0 and the path returned or on its way to the rollback.
C15_BlocksUntilExit ==
    /\ \A p \in Callers : (pc[p] # "idle") ~> (pc[p] = "idle")
    /\ [][\A p \in Callers :
             (pc[p] = "wait" /\ pc'[p] # "wait")
                 => /\ child[p].state = "running"
                    /\ \/ /\ pc'[p] = "rmtree"
                          /\ child'[p].state = "exited"
                          /\ child'[p].returncode # 0
                       \/ /\ pc'[p] = "idle"
                          /\ ret'[p] = ReturnPath(deps_path[p])
                          /\ child[p].wrote = MaxFiles]_vars

\* C15 witness: two calls that each spawned an installer have ended, one
\* with the path and one with RuntimeError.
C15_Witness ==
    \E p, q \in Callers :
        /\ pc[p] = "idle" /\ pc[q] = "idle"
        /\ spawned[p] = 1 /\ spawned[q] = 1
        /\ ret[p].kind = "Path"
        /\ ret[q].kind = "RuntimeError"

\* caller q is between its check of line 99 and the exit of its installer
InFlight(q) == pc[q] \in {"mkdir", "run", "wait"}

\* C9: the check of line 99 is no test-and-set: a caller whose target
\* directory does not exist goes on to create it and install, also while
\* another caller is between its own check and the exit of its installer
\* for the same directory.
C9_CheckIsNotAtomic ==
    [][\A p \in Callers :
          (/\ pc[p] = "exists"
           /\ pc'[p] # "exists"
           /\ deps_path[p] \notin dirs
           /\ \E q \in Callers \ {p} : InFlight(q) /\ deps_path[q] = deps_path[p])
              => pc'[p] = "mkdir"]_vars

\* C9 witness: two callers with different lists of one fingerprint both
\* found the entry absent and both have an installer running against the
\* same target directory.
C9_Witness ==
    \E p, q \in Callers :
        /\ p # q
        /\ dependencies[p] # dependencies[q]
        /\ deps_path[p] = deps_path[q]
        /\ pc[p] = "wait" /\ pc[q] = "wait"
        /\ child[p].state = "running" /\ child[q].state = "running"
        /\ populated = {}

\* the target of caller p is one an earlier call failed on and none populated
Retrying(p) == deps_path[p] \in failed /\ deps_path[p] \notin populated

\* C12: with callers one after the other, a call that raises RuntimeError
\* leaves its target directory absent, and a later call for that directory
\* starts afresh: it finds the directory absent, creates it, spawns one
\* installer, and returns the path when that installer exits with status 0.
C12_FailureIsReentrant ==
    [][\A p \in Callers :
          /\ (Ends(p) /\ ret'[p].kind = "RuntimeError")
                 => (deps_path[p] \notin dirs' /\ deps_path[p] \in failed')
          /\ (Retrying(p) /\ pc[p] = "exists" /\ pc'[p] # "exists")
                 => pc'[p] = "mkdir"
          /\ (Retrying(p) /\ pc[p] = "mkdir" /\ pc'[p] # "mkdir")
                 => (pc'[p] = "run" /\ deps_path[p] \in dirs')
          /\ (Retrying(p) /\ pc[p] = "run" /\ pc'[p] # "run")
                 => (pc'[p] = "wait" /\ spawned'[p] = 1)
          /\ (Retrying(p) /\ pc[p] = "wait" /\ Ends(p))
                 => /\ ret'[p] = ReturnPath(deps_path[p])
                    /\ deps_path[p] \in populated'
                    /\ ListingIn(files', deps_path[p]) # {}]_vars

\* C12 witness: the first call failed on a directory and the second call
\* installed into that directory and returned its path.
C12_Witness ==
    \E p \in Callers :
        /\ calls = 2
        /\ pc[p] = "idle"
        /\ ret[p].kind = "Path"
        /\ spawned[p] = 1
        /\ ret[p].path \in failed
        /\ ret[p].path \in populated
        /\ Listing(ret[p].path) # {}

\* C11: a call that finds its target directory present but empty at the
\* check of line 99 does not return: it goes on to line 103, and from there
\* to subprocess.run, which spawns the installer for that directory.
C11_EmptyIsAbsent ==
    [][\A p \in Callers :
          /\ (/\ pc[p] = "iterdir"
              /\ deps_path[p] \in dirs
              /\ Listing(deps_path[p]) = {}
              /\ pc'[p] # "iterdir")
                 => (pc'[p] = "mkdir" /\ ret'[p] = Pending /\ spawned'[p] = 0)
          /\ (pc[p] = "mkdir" /\ pc'[p] # "mkdir") => pc'[p] = "run"
          /\ (pc[p] = "run" /\ pc'[p] # "run")
                 => /\ pc'[p] = "wait"
                    /\ spawned'[p] = 1
                    /\ child'[p].state = "running"
                    /\ deps_path'[p] = deps_path[p]]_vars

\* C11 witness: the first call found the empty StaleEntry, whose directory
\* was there from the start, and has an installer running against it.
C11_Witness ==
    \E p \in Callers :
        /\ calls = 1
        /\ pc[p] = "wait"
        /\ deps_path[p] = StaleEntry
        /\ spawned[p] = 1
        /\ child[p].state = "running"
        /\ child[p].wrote = 0

----------------------------------------------------------------------------
(* Properties of add_deps_to_sys_path                                      *)

\* C7: with one call of add_deps_to_sys_path at a time, a path that has been
\* passed once, twice or more often to it is exactly one entry of sys.path.
C7_RegisteredOnce ==
    \A x \in RegisterStrs : registered[x] >= 1 => Count(x, sys_path) = 1

\* C7 witness: a path has been passed twice and is one entry of sys.path.
C7_Witness ==
    \E x \in RegisterStrs : registered[x] = 2 /\ Count(x, sys_path) = 1

\* C17: a call with a non-empty list and flwr_dir = None, made when
\* get_flwr_dir() can determine no directory, ends in the step of line 96
\* with ConfigurationError: no directory and no file has changed, no
\* installer has been spawned, and the call makes no second attempt.
C17_ConfigurationErrorFirst ==
    [][\A p \in Callers :
          (/\ pc[p] = "l93"
           /\ dependencies[p] # <<>>
           /\ flwr_dir[p] = NoPath
           /\ env = "unset"
           /\ pc'[p] # "l93")
              => /\ pc'[p] = "idle"
                 /\ ret'[p].kind = "ConfigurationError"
                 /\ spawned'[p] = 0
                 /\ child'[p] = NoChild
                 /\ dirs' = dirs
                 /\ files' = files]_vars

\* C17 witness: the only call made has raised ConfigurationError, and there
\* is no cache entry and no installer.
C17_Witness ==
    \E p \in Callers :
        /\ calls = 1
        /\ pc[p] = "idle"
        /\ ret[p].kind = "ConfigurationError"
        /\ spawned[p] = 0
        /\ CacheEntries = {}
        /\ env = "unset"

\* C18: whenever a call returns a path, an installer that targeted that
\* directory has exited with status 0, and no other caller has an installer
\* running against the directory or is rolling a failed installation back
\* in it.
C18_ReturnedPathIsComplete ==
    [][\A p \in Callers :
          (Ends(p) /\ ret'[p].kind = "Path")
              => /\ ret'[p].path \in populated'
                 /\ \A q \in Callers \ {p} :
                       ~(/\ deps_path[q] = ret'[p].path
                         /\ pc[q] \in {"wait", "rmtree", "rmdir"})]_vars

\* the cache entries among the directories ds
EntriesOf(ds) == {d \in ds : Len(d) > 2 /\ d[Len(d) - 1] = DEPS_DIR}

\* the step creates or removes directory d, or changes the files it holds
EntryChanged(d) ==
    \/ (d \in dirs) # (d \in dirs')
    \/ ListingIn(files, d) # ListingIn(files', d)

\* the step is one of caller p or of its installer
Acts(p) == pc'[p] # pc[p] \/ child'[p] # child[p]

\* C19: under any interleaving, a step that creates or removes a cache
\* entry or changes its files is a step of a caller, or of its installer,
\* whose call is for that entry: the entry is the path of the call's own
\* dependency list and base directory. Every other entry is as it was.
C19_FingerprintsAreIsolated ==
    [][\A d \in EntriesOf(dirs \cup dirs') :
          EntryChanged(d) =>
              \E p \in Callers :
                  /\ Acts(p)
                  /\ deps_path[p] = d
                  /\ d = get_deps_install_path(dependencies[p], flwr_dir[p],
                                               env).path]_vars

\* C19 witness: one call has populated an entry, another call has failed
\* on a different entry and rolled it back, and the populated entry still
\* holds its files.
C19_Witness ==
    \E d \in populated, e \in failed :
        /\ d # e
        /\ calls = 2
        /\ Listing(d) # {}
        /\ e \notin dirs
        /\ \A p \in Callers : pc[p] = "idle"

\* caller p is inside a call of install_dependencies
Installing(p) == pc[p] \in Lines \ {"idle", "l144", "l145"}

\* C16: no step of install_dependencies, from the call to the return or the
\* raise, changes sys.path; sys.path changes only at line 145 of
\* add_deps_to_sys_path, so that a cache entry's path is in sys.path only
\* after a call of add_deps_to_sys_path with that path has ended.
C16_InstallLeavesSysPath ==
    [][/\ \A p \in Callers :
             (Installing(p) \/ Installing(p)') => sys_path' = sys_path
       /\ sys_path' # sys_path =>
             \E p \in Callers : pc[p] = "l145" /\ pc'[p] = "idle"
       /\ \A x \in RegisterStrs :
             Member(x, sys_path') => registered'[x] >= 1]_vars

\* C16 witness: a call has installed an entry and returned its path, which
\* is no entry of sys.path, while the other entry's path has been put there
\* by add_deps_to_sys_path.
C16_Witness ==
    \E p \in Callers :
        /\ pc[p] = "idle"
        /\ ret[p].kind = "Path"
        /\ spawned[p] = 1
        /\ Listing(ret[p].path) # {}
        /\ ~Member(str(ret[p].path), sys_path)
        /\ Len(sys_path) = 2

\* C13: with one call of add_deps_to_sys_path at a time, a call whose path
\* string equals an entry of sys.path leaves sys.path as it is, and a call
\* whose path string equals no entry makes sys.path that string followed
\* by the entries it had, in their order.
C13_InsertAtFrontIffNew ==
    [][\A p \in Callers :
          /\ (pc[p] = "idle" /\ pc'[p] = "l144") => sys_path' = sys_path
          /\ (pc[p] = "l144" /\ pc'[p] = "idle")
                 => (Member(path_str[p], sys_path) /\ sys_path' = sys_path)
          /\ (pc[p] = "l144" /\ pc'[p] = "l145")
                 => (~Member(path_str[p], sys_path) /\ sys_path' = sys_path)
          /\ (pc[p] = "l145" /\ pc'[p] = "idle")
                 => /\ ~Member(path_str[p], sys_path)
                    /\ sys_path' = <<path_str[p]>> \o sys_path]_vars

\* C13 witness: every caller's last call passed the path that is the
\* second entry of sys.path, behind another registered path: the path was
\* passed again after the other one went in front of it, and stayed second.
C13_Witness ==
    /\ Len(sys_path) = 3
    /\ sys_path[1] \in RegisterStrs
    /\ sys_path[2] \in RegisterStrs
    /\ sys_path[1] # sys_path[2]
    /\ \A p \in Callers : pc[p] = "idle" /\ path_str[p] = sys_path[2]

\* C14: with threads calling add_deps_to_sys_path concurrently, a thread
\* that has passed the test of line 144 inserts at line 145 also when its
\* path has become an entry of sys.path since: the path is then one more
\* time in sys.path.
C14_CheckThenInsertRaces ==
    [][\A p \in Callers :
          (pc[p] = "l145" /\ pc'[p] # "l145" /\ Member(path_str[p], sys_path))
              => Count(path_str[p], sys_path') = Count(path_str[p], sys_path) + 1]_vars

\* C14 witness: two threads registered the same path and sys.path holds it
\* twice.
C14_Witness ==
    \E x \in RegisterStrs :
        /\ Count(x, sys_path) = 2
        /\ registered[x] = 2
        /\ \A p \in Callers : pc[p] = "idle" /\ path_str[p] = x

====
